---- MODULE Spec2Model ----
(***************************************************************************)
(* Lexical analyzer for an R-like language (practice/lab1_lexer/lexer.py). *)
(* The model covers class RLexer: the symbol tables, reset, the number     *)
(* validator is_valid_number and the scanning loop of tokenize.  One       *)
(* action is one iteration of the main loop `while i < length`; the inner  *)
(* loops of an iteration are computed by recursive operators.              *)
(*                                                                         *)
(* A text that the code indexes (the input, a lexeme being collected) is a  *)
(* sequence of one-character strings; Join makes the str that is stored in *)
(* a token, a table or the errors list.  The cursor i is 0-based as in the *)
(* source, so code[i] of the source is At(code, i) here.  Messages are     *)
(* English renderings of the source's Russian literals.                    *)
(***************************************************************************)
EXTENDS Integers, Sequences, FiniteSets, TLC

VARIABLES
    keywords, delimiters, operations,     \* the static tables
    identifiers, numbers, strings,        \* the dynamic tables
    token_sequence, errors, error_tokens,
    current_line, current_column, original_code,
    code, i,                              \* tokenize: its parameter and its cursor
    pc, stale,
    ref, result, heap                     \* the list objects: see the state machine

fields == << keywords, delimiters, operations, identifiers, numbers, strings,
             token_sequence, errors, error_tokens, current_line, current_column,
             original_code >>

vars == << fields, code, i, pc, stale, ref, result, heap >>

(***************************************************************************)
(* Bounds of the model.                                                    *)
(***************************************************************************)
\* Longest input text handed to tokenize.
MaxLen == 4

\* Longest input text handed to tokenize by a caller that holds on to results.
MaxHeldLen == 2

\* Characters from which input texts are drawn: a digit, the dot, the
\* exponent letter, a letter that is also the keyword "c", a sign that is
\* also an operation, both kinds of whitespace, the comment mark, the two
\* quotes, the backslash (the escape, and a delimiter) and an unknown symbol.
Alphabet == {"1", ".", "e", "c", "-", " ", "\n", "#", "\"", "'", "\\", "?"}

\* Longer texts handed to tokenize besides those over Alphabet: a dotted
\* keyword, a character that starts operations but is none itself, and
\* operations of three and four characters, and the sign '+' after a digit
\* and after an exponent marker.
Samples ==
    { << "d", "a", "t", "a", ".", "f", "r", "a", "m", "e" >>,
      << "%", "%", "%" >>,
      << "<", "<", "-" >>,
      << "%", "i", "n", "%" >>,
      << "1", "+", "1" >>,
      << "1", "E", "+", "1" >> }

(***************************************************************************)
(* Characters: str.isalpha, str.isdigit, str.isalnum, str.isspace,         *)
(* str.lower, and code-point order (used by sorted).                       *)
(***************************************************************************)
UpperCase ==
    << "A", "B", "C", "D", "E", "F", "G", "H", "I", "J", "K", "L", "M",
       "N", "O", "P", "Q", "R", "S", "T", "U", "V", "W", "X", "Y", "Z" >>

LowerCase ==
    << "a", "b", "c", "d", "e", "f", "g", "h", "i", "j", "k", "l", "m",
       "n", "o", "p", "q", "r", "s", "t", "u", "v", "w", "x", "y", "z" >>

DecDigits ==
    << "0", "1", "2", "3", "4", "5", "6", "7", "8", "9" >>

\* The character ` (a delimiter of the language): a TLA+ string cannot hold it.
BackTick == "BACKTICK"

Range(s) == {s[k] : k \in DOMAIN s}

Letters == Range(UpperCase) \cup Range(LowerCase)

Digits == Range(DecDigits)

isalpha(c) == c \in Letters

isdigit(c) == c \in Digits

isalnum(c) == isalpha(c) \/ isdigit(c)

isspace(c) == c \in {" ", "\n", "\t", "\r"}

LowerOf == [k \in DOMAIN UpperCase |-> LowerCase[k]]

lower(c) ==
    IF \E k \in DOMAIN UpperCase : UpperCase[k] = c
    THEN LowerOf[CHOOSE k \in DOMAIN UpperCase : UpperCase[k] = c]
    ELSE c

\* The characters of the static tables and of Alphabet in code-point order.
CodePointOrder ==
    << "\t", "\n", "\r", " ", "!", "\"", "#", "$", "%", "&", "'", "(", ")", "*",
       "+", ",", "-", ".", "/" >> \o DecDigits \o
    << ":", ";", "<", "=", ">", "?", "@" >> \o UpperCase \o
    << "[", "\\", "]", "^", "_", BackTick >> \o LowerCase \o << "{", "|", "}", "~" >>

ord(c) == CHOOSE k \in DOMAIN CodePointOrder : CodePointOrder[k] = c

\* Python's < on str: lexicographic by code point, a proper prefix is smaller.
RECURSIVE StrLess(_, _)
StrLess(a, b) ==
    IF b = <<>> THEN FALSE
    ELSE IF a = <<>> THEN TRUE
    ELSE IF Head(a) = Head(b) THEN StrLess(Tail(a), Tail(b))
    ELSE ord(Head(a)) < ord(Head(b))

\* sorted with the case of the letters ignored ("natural" alphabetical order).
sorted_ignoring_case(list) ==
    SortSeq(list, LAMBDA a, b : StrLess([k \in DOMAIN a |-> lower(a[k])],
                                        [k \in DOMAIN b |-> lower(b[k])]))

sorted(list) == SortSeq(list, StrLess)

\* The str made of the characters of s.
RECURSIVE Join(_)
Join(s) == IF s = <<>> THEN "" ELSE Head(s) \o Join(Tail(s))

\* str(n) for n >= 0, as the f-strings format ids, lines and columns.
RECURSIVE str(_)
str(n) ==
    IF n < 10 THEN DecDigits[n + 1]
    ELSE str(n \div 10) \o DecDigits[(n % 10) + 1]

\* code[i] and code[a:b] with the source's 0-based indices.
At(s, k) == s[k + 1]

Slice(s, a, b) == SubSeq(s, a + 1, b)

(***************************************************************************)
(* LexemType and Token.                                                    *)
(***************************************************************************)
LexemType ==
    [ KEYWORD |-> "W", DELIMITER |-> "R", OPERATION |-> "O", IDENTIFIER |-> "I",
      NUMBER |-> "N", STRING |-> "S", COMMENT |-> "C", ERROR |-> "E" ]

\* A Token whose code, for an error, is the kind letter alone.
Token_error_code_is_kind(tcode, value, line, column, lex_type, error_msg) ==
    [ code |-> IF lex_type = LexemType.ERROR THEN lex_type ELSE tcode,
      value |-> value, line |-> line, column |-> column,
      lex_type |-> lex_type, error_msg |-> error_msg ]

\* Token(code, value, line, column, lex_type, error_msg="").
Token(tcode, value, line, column, lex_type, error_msg) ==
    [ code |-> tcode, value |-> value, line |-> line, column |-> column,
      lex_type |-> lex_type, error_msg |-> error_msg ]

(***************************************************************************)
(* The static tables of _init_tables.                                      *)
(***************************************************************************)
keywords_list ==
    << <<"i", "f">>, <<"e", "l", "s", "e">>, <<"w", "h", "i", "l", "e">>,
       <<"f", "o", "r">>, <<"i", "n">>, <<"n", "e", "x", "t">>,
       <<"b", "r", "e", "a", "k">>, <<"f", "u", "n", "c", "t", "i", "o", "n">>, <<"r", "e", "t", "u", "r", "n">>,
       <<"T", "R", "U", "E">>, <<"F", "A", "L", "S", "E">>, <<"N", "U", "L", "L">>,
       <<"N", "A">>, <<"I", "n", "f">>, <<"N", "a", "N">>,
       <<"r", "e", "p", "e", "a", "t">>, <<"s", "w", "i", "t", "c", "h">>, <<"t", "r", "y">>,
       <<"t", "r", "y", "C", "a", "t", "c", "h">>, <<"s", "t", "o", "p">>, <<"w", "a", "r", "n", "i", "n", "g">>,
       <<"r", "e", "q", "u", "i", "r", "e">>, <<"l", "i", "b", "r", "a", "r", "y">>, <<"s", "o", "u", "r", "c", "e">>,
       <<"s", "e", "t", "w", "d">>, <<"g", "e", "t", "w", "d">>, <<"l", "i", "s", "t">>,
       <<"m", "a", "t", "r", "i", "x">>, <<"d", "a", "t", "a", ".", "f", "r", "a", "m", "e">>, <<"c">>,
       <<"c", "b", "i", "n", "d">>, <<"r", "b", "i", "n", "d">>, <<"l", "e", "n", "g", "t", "h">>,
       <<"n", "r", "o", "w">>, <<"n", "c", "o", "l">>, <<"s", "u", "m", "m", "a", "r", "y">>,
       <<"p", "r", "i", "n", "t">>, <<"c", "a", "t">>, <<"p", "a", "s", "t", "e">>,
       <<"s", "p", "r", "i", "n", "t", "f">>, <<"s", "u", "b", "s", "e", "t">>, <<"m", "e", "r", "g", "e">>,
       <<"a", "p", "p", "l", "y">>, <<"l", "a", "p", "p", "l", "y">>, <<"s", "a", "p", "p", "l", "y">>,
       <<"t", "a", "p", "p", "l", "y">>, <<"m", "a", "p", "p", "l", "y">>, <<"a", "g", "g", "r", "e", "g", "a", "t", "e">>,
       <<"p", "l", "o", "t">>, <<"g", "g", "p", "l", "o", "t">>, <<"l", "m">>,
       <<"g", "l", "m">>, <<"s", "u", "m", "m", "a", "r", "y", ".", "l", "m">>, <<"a", "n", "o", "v", "a">>,
       <<"p", "r", "e", "d", "i", "c", "t">> >>

delimiters_list ==
    << <<".">>, <<",">>, <<";">>, <<":">>, <<":", ":">>, <<":", ":", ":">>,
       <<"(">>, <<")">>, <<"[">>, <<"]">>, <<"[", "[">>, <<"]", "]">>,
       <<"{">>, <<"}">>, <<"'">>, <<"\"">>, <<BackTick>>, <<"$">>,
       <<"@">>, <<"\\">>, <<"\n">>, <<"\t">>, <<" ">>, <<"\r">> >>

operations_list ==
    << <<"+">>, <<"-">>, <<"*">>, <<"/">>, <<"^">>, <<"*", "*">>,
       <<"%", "%">>, <<"%", "/", "%">>, <<"%", "*", "%">>, <<"%", "i", "n", "%">>, <<"<">>, <<">">>,
       <<"<", "=">>, <<">", "=">>, <<"=", "=">>, <<"!", "=">>, <<"=">>, <<"<", "-">>,
       <<"<", "<", "-">>, <<"-", ">">>, <<"-", ">", ">">>, <<"&">>, <<"|">>, <<"!">>,
       <<"&", "&">>, <<"|", "|">>, <<"~">>, <<":">>, <<"$">>, <<"@">>,
       <<"%", ">", "%">>, <<"%", "T", ">", "%">>, <<"%", "<", ">", "%">>, <<"%", "$", "%">> >>


\* A dict: a function from keys to values.  {} is the empty dict.
EmptyDict == [k \in {} |-> 0]

\* for i, x in enumerate(list, 1): d[x] = i  (a later duplicate overwrites).
Enumerate(list) ==
    [ w \in {Join(list[k]) : k \in DOMAIN list} |->
        CHOOSE k \in DOMAIN list :
            Join(list[k]) = w /\ \A m \in DOMAIN list : Join(list[m]) = w => m <= k ]

\* dict.get(key): the value, or None (modelled as 0: falsy, never an id).
Get(d, key) == IF key \in DOMAIN d THEN d[key] ELSE 0

\* The object after RLexer.__init__: empty containers, then _init_tables.
__init__ ==
    [ keywords |-> Enumerate(sorted(keywords_list)),
      delimiters |-> Enumerate(delimiters_list),
      operations |-> Enumerate(operations_list),
      identifiers |-> EmptyDict,
      numbers |-> EmptyDict,
      strings |-> EmptyDict,
      token_sequence |-> <<>>,
      errors |-> <<>>,
      error_tokens |-> <<>>,
      current_line |-> 1,
      current_column |-> 1,
      original_code |-> "" ]

\* reset that forgets to clear the numbers table.
reset_keeps_numbers(obj) ==
    [ obj EXCEPT !.identifiers = EmptyDict,
                 !.strings = EmptyDict,
                 !.token_sequence = <<>>,
                 !.errors = <<>>,
                 !.error_tokens = <<>>,
                 !.current_line = 1,
                 !.current_column = 1 ]

\* reset that clears every table, the keywords too.
reset_clears_keywords(obj) ==
    [ obj EXCEPT !.keywords = EmptyDict,
                 !.identifiers = EmptyDict,
                 !.numbers = EmptyDict,
                 !.strings = EmptyDict,
                 !.token_sequence = <<>>,
                 !.errors = <<>>,
                 !.error_tokens = <<>>,
                 !.current_line = 1,
                 !.current_column = 1 ]

reset(obj) ==
    [ obj EXCEPT !.identifiers = EmptyDict,
                 !.numbers = EmptyDict,
                 !.strings = EmptyDict,
                 !.token_sequence = <<>>,
                 !.errors = <<>>,
                 !.error_tokens = <<>>,
                 !.current_line = 1,
                 !.current_column = 1 ]

\* The keyword lookup made in the identifiers table.
is_keyword_in_identifiers(obj, word) == Get(obj.identifiers, word)

is_keyword(obj, word) == Get(obj.keywords, word)

\* The delimiter lookup with a default id for a character not in the table.
is_delimiter_with_default(obj, char) ==
    IF char \in DOMAIN obj.delimiters THEN obj.delimiters[char] ELSE 1

is_delimiter(obj, char) == Get(obj.delimiters, char)

is_operation(obj, op) == Get(obj.operations, op)

\* add_identifier / add_number / add_string: the object after the call; the
\* returned id is then obj.<table>[name].
\* add_identifier without the membership test: a repeated name gets a new id.
add_identifier_always(obj, name) ==
    [obj EXCEPT !.identifiers =
        [n \in DOMAIN @ \cup {name} |->
            IF n = name THEN Cardinality(DOMAIN obj.identifiers) + 1 ELSE @[n]]]

add_identifier(obj, name) ==
    IF name \notin DOMAIN obj.identifiers
    THEN [obj EXCEPT !.identifiers =
            @ @@ (name :> (Cardinality(DOMAIN obj.identifiers) + 1))]
    ELSE obj

\* add_number numbering from the size of the table: the first id is 0.
add_number_from_zero(obj, num) ==
    IF num \notin DOMAIN obj.numbers
    THEN [obj EXCEPT !.numbers = @ @@ (num :> Cardinality(DOMAIN obj.numbers))]
    ELSE obj

add_number(obj, num) ==
    IF num \notin DOMAIN obj.numbers
    THEN [obj EXCEPT !.numbers = @ @@ (num :> (Cardinality(DOMAIN obj.numbers) + 1))]
    ELSE obj

add_string(obj, string) ==
    IF string \notin DOMAIN obj.strings
    THEN [obj EXCEPT !.strings = @ @@ (string :> (Cardinality(DOMAIN obj.strings) + 1))]
    ELSE obj

(***************************************************************************)
(* is_valid_number: <<is_valid, message>>.                                 *)
(***************************************************************************)
count(s, c) == Cardinality({k \in DOMAIN s : s[k] = c})

\* re.split(r'[eE]', s): the pieces between the e/E characters.
RECURSIVE SplitE(_, _)
SplitE(s, piece) ==
    IF s = <<>> THEN << piece >>
    ELSE IF Head(s) \in {"e", "E"} THEN << piece >> \o SplitE(Tail(s), <<>>)
    ELSE SplitE(Tail(s), Append(piece, Head(s)))

re_split_eE(s) == SplitE(s, <<>>)

\* A digit test that lets dots through.
str_isdigit_or_dot(s) == s # <<>> /\ \A k \in DOMAIN s : isdigit(s[k]) \/ s[k] = "."

\* str.isdigit(): non-empty and every character a digit.
str_isdigit(s) == s # <<>> /\ \A k \in DOMAIN s : isdigit(s[k])

\* The letter loop accepting an e/E only when a digit follows it, not a sign.
BadLetters_no_sign(num_str) ==
    { k \in 0..(Len(num_str) - 1) :
        /\ isalpha(At(num_str, k))
        /\ ~ ( /\ lower(At(num_str, k)) = "e"
               /\ k > 0
               /\ k < Len(num_str) - 1
               /\ isdigit(At(num_str, k + 1)) ) }

\* The letter loop of is_valid_number: the 0-based indices of the alphabetic
\* characters at which the loop returns False (it returns at the first one).
BadLetters(num_str) ==
    { k \in 0..(Len(num_str) - 1) :
        /\ isalpha(At(num_str, k))
        /\ ~ ( /\ lower(At(num_str, k)) = "e"
               /\ k > 0
               /\ k < Len(num_str) - 1
               /\ \/ isdigit(At(num_str, k + 1))
                  \/ At(num_str, k + 1) \in {"+", "-"} ) }

MinOf(S) == CHOOSE m \in S : \A n \in S : m <= n

MaxOf(S) == CHOOSE m \in S : \A n \in S : n <= m

MsgBadExponent == "Invalid exponent notation"

is_valid_number(num_str) ==
    IF num_str = <<>> THEN << FALSE, "Empty number" >>
    ELSE IF count(num_str, ".") > 1
    THEN << FALSE, "Invalid use of the dot - several decimal separators" >>
    ELSE IF BadLetters(num_str) # {}
    THEN << FALSE, "Invalid number - contains letter '"
                      \o At(num_str, MinOf(BadLetters(num_str))) \o "'" >>
    ELSE IF \E k \in DOMAIN num_str : lower(num_str[k]) = "e"
    THEN LET parts == re_split_eE(num_str)
             mantissa == parts[1]
             exponent == IF parts[2] # <<>> /\ Head(parts[2]) \in {"+", "-"}
                         THEN Tail(parts[2]) ELSE parts[2]
         IN  IF Len(parts) # 2 THEN << FALSE, MsgBadExponent >>
             ELSE IF parts[1] = <<>> \/ parts[2] = <<>>
             THEN << FALSE, MsgBadExponent >>
             ELSE IF count(mantissa, ".") > 1
             THEN << FALSE, "Invalid exponent notation - several dots in mantissa" >>
             ELSE IF exponent = <<>> \/ ~ str_isdigit(exponent)
             THEN << FALSE, MsgBadExponent >>
             ELSE << TRUE, "Valid number" >>
    ELSE << TRUE, "Valid number" >>

(***************************************************************************)
(* tokenize: the branches of one iteration of `while i < length`.  Each    *)
(* branch operator takes the object, the text and the cursor, and yields   *)
(* [self, i] as they are when the iteration ends.  Every consumed          *)
(* character adds one to current_column, so a branch that moves the        *)
(* cursor from i to j leaves current_column increased by j - i.            *)
(***************************************************************************)
Last(s) == s[Len(s)]

Emit(obj, tok) == [obj EXCEPT !.token_sequence = Append(@, tok)]

Report(obj, text) == [obj EXCEPT !.errors = Append(@, text)]

Advance(obj, n) == [obj EXCEPT !.current_column = @ + n]

\* The head of an errors entry with the line and the column exchanged.
Where_column_first(line, column) ==
    "Line " \o str(column) \o ", column " \o str(line) \o ": "

\* "Строка {line}, колонка {column}: " -- the head of every errors entry.
Where(line, column) ==
    "Line " \o str(line) \o ", column " \o str(column) \o ": "

\* The whitespace branch without its `i += 1`.
SkipSpace_stays(obj, text, j) ==
    [ self |-> IF At(text, j) = "\n"
               THEN [obj EXCEPT !.current_line = @ + 1, !.current_column = 1]
               ELSE [obj EXCEPT !.current_column = @ + 1],
      i |-> j ]

\* Lines 184-191: whitespace.
SkipSpace(obj, text, j) ==
    [ self |-> IF At(text, j) = "\n"
               THEN [obj EXCEPT !.current_line = @ + 1, !.current_column = 1]
               ELSE [obj EXCEPT !.current_column = @ + 1],
      i |-> j + 1 ]

\* The comment loop taking the newline that ends the comment into it.
RECURSIVE CommentLoop_takes_newline(_, _, _)
CommentLoop_takes_newline(text, j, comment) ==
    IF j < Len(text)
    THEN IF At(text, j) = "\n"
         THEN [i |-> j + 1, text |-> Append(comment, At(text, j))]
         ELSE CommentLoop_takes_newline(text, j + 1, Append(comment, At(text, j)))
    ELSE [i |-> j, text |-> comment]

\* Lines 197-200: while i < length and code[i] != '\n'.
RECURSIVE CommentLoop(_, _, _)
CommentLoop(text, j, comment) ==
    IF j < Len(text) /\ At(text, j) # "\n"
    THEN CommentLoop(text, j + 1, Append(comment, At(text, j)))
    ELSE [i |-> j, text |-> comment]

\* Lines 194-202: line comment.
Comment(obj, text, j) ==
    LET r == CommentLoop(text, j, <<>>)
    IN  [ self |-> Emit(Advance(obj, r.i - j),
                        Token("C#", Join(r.text), obj.current_line,
                              obj.current_column, LexemType.COMMENT, "")),
          i |-> r.i ]

\* The string loop without the escape: a backslash is an ordinary character.
RECURSIVE StringLoop_no_escape(_, _, _, _)
StringLoop_no_escape(text, j, quote, string) ==
    IF j < Len(text) /\ At(text, j) # quote
    THEN StringLoop_no_escape(text, j + 1, quote, Append(string, At(text, j)))
    ELSE [i |-> j, text |-> string]

\* The string loop decoding an escape: only the escaped character is copied.
RECURSIVE StringLoop_decodes(_, _, _, _)
StringLoop_decodes(text, j, quote, string) ==
    IF j < Len(text) /\ At(text, j) # quote
    THEN IF At(text, j) = "\\" /\ j + 1 < Len(text)
         THEN StringLoop_decodes(text, j + 2, quote, Append(string, At(text, j + 1)))
         ELSE StringLoop_decodes(text, j + 1, quote, Append(string, At(text, j)))
    ELSE [i |-> j, text |-> string]

\* The string loop ending at a newline as well as at the quote.
RECURSIVE StringLoop_stops_at_newline(_, _, _, _)
StringLoop_stops_at_newline(text, j, quote, string) ==
    IF j < Len(text) /\ At(text, j) # quote /\ At(text, j) # "\n"
    THEN IF At(text, j) = "\\" /\ j + 1 < Len(text)
         THEN StringLoop_stops_at_newline(text, j + 2, quote,
                                          string \o << At(text, j), At(text, j + 1) >>)
         ELSE StringLoop_stops_at_newline(text, j + 1, quote, Append(string, At(text, j)))
    ELSE [i |-> j, text |-> string]

\* Lines 212-220: while i < length and code[i] != quote, with the escape.
RECURSIVE StringLoop(_, _, _, _)
StringLoop(text, j, quote, string) ==
    IF j < Len(text) /\ At(text, j) # quote
    THEN IF At(text, j) = "\\" /\ j + 1 < Len(text)
         THEN StringLoop(text, j + 2, quote,
                         string \o << At(text, j), At(text, j + 1) >>)
         ELSE StringLoop(text, j + 1, quote, Append(string, At(text, j)))
    ELSE [i |-> j, text |-> string]

\* Lines 205-232: quoted string, closed or unterminated.
String(obj, text, j) ==
    LET quote == At(text, j)
        start_line == obj.current_line
        start_column == obj.current_column
        r == StringLoop(text, j + 1, quote, << quote >>)
    IN  IF r.i < Len(text) /\ At(text, r.i) = quote
        THEN LET string == Join(Append(r.text, quote))
                 o1 == add_string(Advance(obj, r.i + 1 - j), string)
             IN  [ self |-> Emit(o1, Token("S" \o str(o1.strings[string]), string,
                                          start_line, start_column,
                                          LexemType.STRING, "")),
                   i |-> r.i + 1 ]
        ELSE LET error_msg == "Unterminated string"
             IN  [ self |-> Emit(Report(Advance(obj, r.i - j),
                                        Where(start_line, start_column) \o error_msg),
                                 Token("E1", Join(r.text), start_line, start_column,
                                       LexemType.ERROR, error_msg)),
                   i |-> r.i ]

\* Lines 235-239: the two-dot range operator.
RangeOp(obj, text, j) ==
    [ self |-> Advance(Emit(obj, Token("R19", "..",
                                       obj.current_line, obj.current_column,
                                       LexemType.DELIMITER, "")), 2),
      i |-> j + 2 ]

\* Lines 248-251: while i < length and (code[i].isalnum() or code[i] in '._').
RECURSIVE WordLoop(_, _, _)
WordLoop(text, j, word) ==
    IF j < Len(text) /\ (isalnum(At(text, j)) \/ At(text, j) \in {".", "_"})
    THEN WordLoop(text, j + 1, Append(word, At(text, j)))
    ELSE [i |-> j, text |-> word]

\* Lines 242-260: identifier or keyword.
Word(obj, text, j) ==
    LET r == WordLoop(text, j, <<>>)
        word == Join(r.text)
        kw_id == is_keyword(obj, word)
        o1 == Advance(obj, r.i - j)
    IN  IF kw_id # 0
        THEN [ self |-> Emit(o1, Token("W" \o str(kw_id), word, obj.current_line,
                                       obj.current_column, LexemType.KEYWORD, "")),
               i |-> r.i ]
        ELSE LET o2 == add_identifier(o1, word)
             IN  [ self |-> Emit(o2, Token("I" \o str(o2.identifiers[word]), word,
                                           obj.current_line, obj.current_column,
                                           LexemType.IDENTIFIER, "")),
                   i |-> r.i ]

\* The loop after a letter stopping at a '.', as if it read isalnum() alone.
RECURSIVE LettersLoop_no_dot(_, _, _)
LettersLoop_no_dot(text, j, number) ==
    IF j < Len(text) /\ isalnum(At(text, j))
    THEN LettersLoop_no_dot(text, j + 1, Append(number, At(text, j)))
    ELSE [i |-> j, text |-> number, letters |-> TRUE]

\* Lines 289-292: after a letter, while i < length and
\* (code[i].isalnum() or code[i] == '.').
RECURSIVE LettersLoop(_, _, _)
LettersLoop(text, j, number) ==
    IF j < Len(text) /\ (isalnum(At(text, j)) \/ At(text, j) = ".")
    THEN LettersLoop(text, j + 1, Append(number, At(text, j)))
    ELSE [i |-> j, text |-> number, letters |-> TRUE]

\* The consumption loop without the look-ahead for a second dot: every '.'
\* is appended to the run.
RECURSIVE NumberLoop_eats_dots(_, _, _)
NumberLoop_eats_dots(text, j, number) ==
    IF ~ (j < Len(text)) THEN [i |-> j, text |-> number, letters |-> FALSE]
    ELSE LET current_char == At(text, j)
         IN  IF isalpha(current_char)
             THEN IF /\ lower(current_char) = "e"
                     /\ number # <<>>
                     /\ ~ isalpha(Last(number))
                     /\ j + 1 < Len(text)
                     /\ (isdigit(At(text, j + 1)) \/ At(text, j + 1) \in {"+", "-"})
                  THEN NumberLoop_eats_dots(text, j + 1, Append(number, current_char))
                  ELSE LettersLoop(text, j + 1, Append(number, current_char))
             ELSE IF current_char = "."
             THEN NumberLoop_eats_dots(text, j + 1, Append(number, current_char))
             ELSE IF current_char \in {"+", "-"}
             THEN IF number # <<>> /\ lower(Last(number)) = "e"
                  THEN NumberLoop_eats_dots(text, j + 1, Append(number, current_char))
                  ELSE [i |-> j, text |-> number, letters |-> FALSE]
             ELSE IF isdigit(current_char)
             THEN NumberLoop_eats_dots(text, j + 1, Append(number, current_char))
             ELSE [i |-> j, text |-> number, letters |-> FALSE]

\* The consumption loop appending a sign after any character of the run,
\* not only after e/E.
RECURSIVE NumberLoop_eats_signs(_, _, _)
NumberLoop_eats_signs(text, j, number) ==
    IF ~ (j < Len(text)) THEN [i |-> j, text |-> number, letters |-> FALSE]
    ELSE LET current_char == At(text, j)
         IN  IF isalpha(current_char)
             THEN IF /\ lower(current_char) = "e"
                     /\ number # <<>>
                     /\ ~ isalpha(Last(number))
                     /\ j + 1 < Len(text)
                     /\ (isdigit(At(text, j + 1)) \/ At(text, j + 1) \in {"+", "-"})
                  THEN NumberLoop_eats_signs(text, j + 1, Append(number, current_char))
                  ELSE LettersLoop(text, j + 1, Append(number, current_char))
             ELSE IF current_char = "."
             THEN IF j + 1 < Len(text) /\ At(text, j + 1) = "."
                  THEN [i |-> j, text |-> number, letters |-> FALSE]
                  ELSE NumberLoop_eats_signs(text, j + 1, Append(number, current_char))
             ELSE IF current_char \in {"+", "-"}
             THEN IF number # <<>>
                  THEN NumberLoop_eats_signs(text, j + 1, Append(number, current_char))
                  ELSE [i |-> j, text |-> number, letters |-> FALSE]
             ELSE IF isdigit(current_char)
             THEN NumberLoop_eats_signs(text, j + 1, Append(number, current_char))
             ELSE [i |-> j, text |-> number, letters |-> FALSE]

\* Lines 269-333: the consumption loop of a numeric run.  letters is TRUE
\* when the loop left through the letters-in-number path (lines 283-298).
RECURSIVE NumberLoop(_, _, _)
NumberLoop(text, j, number) ==
    IF ~ (j < Len(text)) THEN [i |-> j, text |-> number, letters |-> FALSE]
    ELSE LET current_char == At(text, j)
         IN  IF isalpha(current_char)
             THEN IF /\ lower(current_char) = "e"
                     /\ number # <<>>
                     /\ ~ isalpha(Last(number))
                     /\ j + 1 < Len(text)
                     /\ (isdigit(At(text, j + 1)) \/ At(text, j + 1) \in {"+", "-"})
                  THEN NumberLoop(text, j + 1, Append(number, current_char))
                  ELSE LettersLoop(text, j + 1, Append(number, current_char))
             ELSE IF current_char = "."
             THEN IF j + 1 < Len(text) /\ At(text, j + 1) = "."
                  THEN [i |-> j, text |-> number, letters |-> FALSE]
                  ELSE NumberLoop(text, j + 1, Append(number, current_char))
             ELSE IF current_char \in {"+", "-"}
             THEN IF number # <<>> /\ lower(Last(number)) = "e"
                  THEN NumberLoop(text, j + 1, Append(number, current_char))
                  ELSE [i |-> j, text |-> number, letters |-> FALSE]
             ELSE IF isdigit(current_char)
             THEN NumberLoop(text, j + 1, Append(number, current_char))
             ELSE [i |-> j, text |-> number, letters |-> FALSE]

\* Line 336: the condition under which the collected run is validated.
ShouldValidate(obj, number) ==
    /\ number # <<>>
    /\ \/ obj.token_sequence = <<>>
       \/ Last(obj.token_sequence).lex_type # LexemType.ERROR

\* Lines 263-344: numeric literal.
Number(obj, text, j) ==
    LET start_line == obj.current_line
        start_col == obj.current_column
        r == NumberLoop(text, j, <<>>)
        number == Join(r.text)
        o1 == Advance(obj, r.i - j)
        letters_msg == "Invalid number - '" \o number \o "' contains letters"
        o2 == IF r.letters
              THEN Emit(Report(o1, Where(start_line, start_col) \o letters_msg),
                        Token("E3", number, start_line, start_col,
                              LexemType.ERROR, letters_msg))
              ELSE o1
        v == is_valid_number(r.text)
    IN  IF ShouldValidate(o2, r.text)
        THEN IF v[1]
             THEN LET o3 == add_number(o2, number)
                  IN  [ self |-> Emit(o3, Token("N" \o str(o3.numbers[number]),
                                                number, start_line, start_col,
                                                LexemType.NUMBER, "")),
                        i |-> r.i ]
             ELSE [ self |-> Emit(Report(o2, Where(start_line, start_col) \o v[2]
                                              \o " - '" \o number \o "'"),
                                  Token("E4", number, start_line, start_col,
                                        LexemType.ERROR, v[2])),
                    i |-> r.i ]
        ELSE [self |-> o2, i |-> r.i]

\* The operation loop trying the length 1 alone.
OpLengths_one_character(obj, text, j) ==
    { n \in 1..1 : j + n <= Len(text) /\ is_operation(obj, Join(Slice(text, j, j + n))) # 0 }

\* Lines 350-359: for length_op in range(4, 0, -1): the lengths at which
\* code[i:i+length_op] is an operation; the loop takes the longest.
OpLengths(obj, text, j) ==
    { n \in 1..4 : j + n <= Len(text) /\ is_operation(obj, Join(Slice(text, j, j + n))) # 0 }

\* Lines 347-383: operation, delimiter, one-character operation, unknown symbol.
Symbol(obj, text, j) ==
    LET char == At(text, j)
        start_column == obj.current_column
        lens == OpLengths(obj, text, j)
        delim_id == is_delimiter(obj, char)
        op_id == is_operation(obj, char)
        error_msg == "Unknown symbol '" \o char \o "'"
    IN  IF lens # {}
        THEN LET potential_op == Join(Slice(text, j, j + MaxOf(lens)))
             IN  [ self |-> Advance(Emit(obj,
                                Token("O" \o str(is_operation(obj, potential_op)),
                                      potential_op, obj.current_line, start_column,
                                      LexemType.OPERATION, "")), MaxOf(lens)),
                   i |-> j + MaxOf(lens) ]
        ELSE IF delim_id # 0
        THEN [ self |-> Advance(Emit(obj,
                            Token("R" \o str(delim_id), char, obj.current_line,
                                  start_column, LexemType.DELIMITER, "")), 1),
               i |-> j + 1 ]
        ELSE IF op_id # 0
        THEN [ self |-> Advance(Emit(obj,
                            Token("O" \o str(op_id), char, obj.current_line,
                                  start_column, LexemType.OPERATION, "")), 1),
               i |-> j + 1 ]
        ELSE [ self |-> Advance(Emit(Report(obj,
                            Where(obj.current_line, obj.current_column) \o error_msg),
                            Token("E5", char, obj.current_line,
                                  start_column, LexemType.ERROR, error_msg)), 1),
               i |-> j + 1 ]

\* The if-chain of the loop body: which branch an iteration at cursor j takes.
Branch(obj, text, j) ==
    LET char == At(text, j)
    IN  IF isspace(char) THEN "space"
        ELSE IF char = "#" THEN "comment"
        ELSE IF char \in {"\"", "'"} THEN "string"
        ELSE IF char = "." /\ j + 1 < Len(text) /\ At(text, j + 1) = "." THEN "range"
        ELSE IF isalpha(char) \/ char = "." \/ char = "_" THEN "word"
        ELSE IF \/ isdigit(char)
                \/ (char = "." /\ j + 1 < Len(text) /\ isdigit(At(text, j + 1)))
        THEN "number"
        ELSE IF OpLengths(obj, text, j) # {} THEN "operation"
        ELSE IF is_delimiter(obj, char) # 0 THEN "delimiter"
        ELSE "unknown"

\* One iteration of the main loop.
Iteration(obj, text, j) ==
    LET b == Branch(obj, text, j)
    IN  IF b = "space" THEN SkipSpace(obj, text, j)
        ELSE IF b = "comment" THEN Comment(obj, text, j)
        ELSE IF b = "string" THEN String(obj, text, j)
        ELSE IF b = "range" THEN RangeOp(obj, text, j)
        ELSE IF b = "word" THEN Word(obj, text, j)
        ELSE IF b = "number" THEN Number(obj, text, j)
        ELSE Symbol(obj, text, j)

\* Lines 173-177: the object and the cursor when the loop is entered.
Enter(obj, text) ==
    [self |-> [reset(obj) EXCEPT !.original_code = Join(text)], i |-> 0]

\* Lines 179-385: the loop run to its end; the object tokenize leaves.
RECURSIVE Loop(_, _)
Loop(r, text) ==
    IF r.i < Len(text) THEN Loop(Iteration(r.self, text, r.i), text) ELSE r.self

tokenize(obj, text) == Loop(Enter(obj, text), text)

(***************************************************************************)
(* The state machine.  The variables are the fields of the RLexer object,  *)
(* the parameter code and the cursor i of the latest call of tokenize, and *)
(* pc, the caller's position: "idle" (constructed or reset, nothing        *)
(* scanned), "scan" (inside the loop of tokenize), "done" (tokenize has    *)
(* returned and its results are held).  stale is a history variable:       *)
(* whether the object still held tokens or errors of an earlier scan when  *)
(* the latest call of tokenize began.                                      *)
(*                                                                         *)
(* token_sequence is a list object, and tokenize returns a reference to    *)
(* it, not a copy.  ref names the list object that self.token_sequence is  *)
(* bound to, and the variable token_sequence is that object's contents;    *)
(* result names the list object a caller holds from an earlier return of   *)
(* tokenize (0: the caller holds none); heap gives the contents of the     *)
(* held object when it is no longer the bound one.  A name is free for a   *)
(* new object once no reference to the old object remains.                 *)
(***************************************************************************)
\* The object as the operators above take it.
self ==
    [ keywords |-> keywords, delimiters |-> delimiters, operations |-> operations,
      identifiers |-> identifiers, numbers |-> numbers, strings |-> strings,
      token_sequence |-> token_sequence, errors |-> errors,
      error_tokens |-> error_tokens, current_line |-> current_line,
      current_column |-> current_column, original_code |-> original_code ]

\* The object becomes obj.
Store(obj) ==
    /\ keywords' = obj.keywords
    /\ delimiters' = obj.delimiters
    /\ operations' = obj.operations
    /\ identifiers' = obj.identifiers
    /\ numbers' = obj.numbers
    /\ strings' = obj.strings
    /\ token_sequence' = obj.token_sequence
    /\ errors' = obj.errors
    /\ error_tokens' = obj.error_tokens
    /\ current_line' = obj.current_line
    /\ current_column' = obj.current_column
    /\ original_code' = obj.original_code

Texts == UNION { [1..n -> Alphabet] : n \in 0..MaxLen } \cup Samples

\* The texts a caller scans next: the text scanned before, typed further or
\* cut back at its end (every text, on an instance that has scanned nothing).
NextTexts(prev) ==
    { SubSeq(prev, 1, n) : n \in 0..Len(prev) }
        \cup UNION { { prev \o t : t \in [1..n -> Alphabet] } : n \in 1..(MaxLen - Len(prev)) }
        \cup { t \in Samples : Len(t) > Len(prev) /\ SubSeq(t, 1, Len(prev)) = prev }

Init ==
    /\ keywords = __init__.keywords
    /\ delimiters = __init__.delimiters
    /\ operations = __init__.operations
    /\ identifiers = __init__.identifiers
    /\ numbers = __init__.numbers
    /\ strings = __init__.strings
    /\ token_sequence = __init__.token_sequence
    /\ errors = __init__.errors
    /\ error_tokens = __init__.error_tokens
    /\ current_line = __init__.current_line
    /\ current_column = __init__.current_column
    /\ original_code = __init__.original_code
    /\ code = <<>>
    /\ i = 0
    /\ pc = "idle"
    /\ stale = FALSE
    /\ ref = 1
    /\ result = 0
    /\ heap = [a \in {} |-> <<>>]

\* The tokens a caller sees through the reference it holds.
HeldTokens == IF result = ref THEN token_sequence ELSE heap[result]

\* Line 96 with the bound list in clear-in-place form: the same object.
NewList_same_object(bound, held) == bound

\* Line 96, `self.token_sequence = []`: a new list object, which is not the
\* one the caller holds.
NewList(bound, held) == IF held = 1 THEN 2 ELSE 1

\* Line 96 on the list objects: self.token_sequence is bound to a new list,
\* and a list the caller holds lives on with its contents.
Rebind ==
    /\ ref' = NewList(ref, result)
    /\ heap' = IF result # 0 /\ result # ref'
                   THEN [a \in {result} |-> HeldTokens]
                   ELSE [a \in {} |-> <<>>]
    /\ result' = result

\* tokenize(text), up to the first test of the loop condition.
Call(text) ==
    LET r == Enter(self, text)
    IN  /\ Store(r.self)
        /\ i' = r.i
        /\ code' = text
        /\ pc' = "scan"
        /\ stale' = (token_sequence # <<>> \/ errors # <<>>)
        /\ Rebind

Tokenize ==
    /\ pc \in {"idle", "done"}
    /\ \E text \in NextTexts(code) : Call(text)

Reset ==
    /\ pc \in {"idle", "done"}
    /\ Store(reset(self))
    /\ pc' = "idle"
    /\ Rebind
    /\ UNCHANGED <<code, i, stale>>

Takes(b) == pc = "scan" /\ i < Len(code) /\ Branch(self, code, i) = b

Becomes(r) == Store(r.self) /\ i' = r.i /\ UNCHANGED <<code, pc, stale, ref, result, heap>>

ScanSpace == Takes("space") /\ Becomes(SkipSpace(self, code, i))

ScanComment == Takes("comment") /\ Becomes(Comment(self, code, i))

ScanString == Takes("string") /\ Becomes(String(self, code, i))

ScanRange == Takes("range") /\ Becomes(RangeOp(self, code, i))

ScanWord == Takes("word") /\ Becomes(Word(self, code, i))

ScanNumber == Takes("number") /\ Becomes(Number(self, code, i))

ScanOperation == Takes("operation") /\ Becomes(Symbol(self, code, i))

ScanDelimiter == Takes("delimiter") /\ Becomes(Symbol(self, code, i))

ScanUnknown == Takes("unknown") /\ Becomes(Symbol(self, code, i))

\* Line 385: the loop condition fails, tokenize returns token_sequence.  The
\* caller reads the result and keeps no reference to it.
Return ==
    /\ pc = "scan"
    /\ ~ (i < Len(code))
    /\ pc' = "done"
    /\ UNCHANGED <<fields, code, i, stale, ref, result, heap>>

Next ==
    \/ Tokenize
    \/ Reset
    \/ ScanSpace
    \/ ScanComment
    \/ ScanString
    \/ ScanRange
    \/ ScanWord
    \/ ScanNumber
    \/ ScanOperation
    \/ ScanDelimiter
    \/ ScanUnknown
    \/ Return

Spec == Init /\ [][Next]_vars

(***************************************************************************)
(* The same object under a caller that holds on to results: what tokenize  *)
(* returns is kept in a variable of the caller until a later result        *)
(* replaces it.                                                            *)
(***************************************************************************)
\* The texts such a caller scans next.
HeldTexts(prev) ==
    { SubSeq(prev, 1, n) : n \in 0..Len(prev) }
        \cup UNION { { prev \o t : t \in [1..n -> Alphabet] } :
                        n \in 1..(MaxHeldLen - Len(prev)) }

TokenizeHeld ==
    /\ pc \in {"idle", "done"}
    /\ \E text \in HeldTexts(code) : Call(text)

\* Line 385, the caller keeping the reference it is handed.
ReturnAndHold ==
    /\ pc = "scan"
    /\ ~ (i < Len(code))
    /\ pc' = "done"
    /\ result' = ref
    /\ heap' = [a \in {} |-> <<>>]
    /\ UNCHANGED <<fields, code, i, stale, ref>>

NextHeld ==
    \/ TokenizeHeld
    \/ Reset
    \/ ScanSpace
    \/ ScanComment
    \/ ScanString
    \/ ScanRange
    \/ ScanWord
    \/ ScanNumber
    \/ ScanOperation
    \/ ScanDelimiter
    \/ ScanUnknown
    \/ ReturnAndHold

SpecHeld == Init /\ [][NextHeld]_vars


(***************************************************************************)
(* Properties.                                                             *)
(***************************************************************************)
IsError(tok) == tok.lex_type = LexemType.ERROR

ErrorTokens == {k \in DOMAIN token_sequence : IsError(token_sequence[k])}

\* The str piece occurs in the text s at the 0-based offset pos.
OccursAt(s, pos, piece) ==
    pos + Len(piece) <= Len(s) /\ Join(Slice(s, pos, pos + Len(piece))) = piece

\* The values of toks from the k-th on, with whitespace skipped between
\* them, spell s from offset pos to its end.
RECURSIVE Spells(_, _, _, _)
Spells(s, pos, toks, k) ==
    IF pos >= Len(s) THEN k > Len(toks)
    ELSE \/ /\ k <= Len(toks)
            /\ toks[k].value # ""
            /\ OccursAt(s, pos, toks[k].value)
            /\ Spells(s, pos + Len(toks[k].value), toks, k + 1)
         \/ /\ isspace(At(s, pos))
            /\ Spells(s, pos + 1, toks, k)

\* C1: Total coverage: when tokenize has returned, the values of the tokens
\* in sequence order, with the whitespace skipped between them, reproduce
\* the input exactly: no gap, no overlap.
C1_TotalCoverage == pc = "done" => Spells(code, 0, token_sequence, 1)

\* The numeric run that an iteration at the cursor consumes.
Run == NumberLoop(code, i, <<>>)

\* The step appends exactly one token / one errors entry.
AppendsToken ==
    /\ Len(token_sequence') = Len(token_sequence) + 1
    /\ SubSeq(token_sequence', 1, Len(token_sequence)) = token_sequence

AppendsError ==
    /\ Len(errors') = Len(errors) + 1
    /\ SubSeq(errors', 1, Len(errors)) = errors

\* C2: Every numeric run consumed without the letters-in-number error is
\* validated and yields exactly one token: a Number token interned in the
\* numbers table if is_valid_number accepts the run, otherwise an Error
\* token with code E4 -- whatever tokens were emitted before it.
C2_RunYieldsOneToken ==
    [][ (Takes("number") /\ ~ Run.letters) =>
          /\ AppendsToken
          /\ LET tok == Last(token_sequence')
             IN  /\ tok.value = Join(Run.text)
                 /\ IF is_valid_number(Run.text)[1]
                    THEN /\ tok.lex_type = LexemType.NUMBER
                         /\ tok.value \in DOMAIN numbers'
                    ELSE /\ IsError(tok)
                         /\ tok.code = "E4" ]_vars

\* The lexeme at the cursor is malformed: an unterminated string, a numeric
\* run with letters or of invalid structure, or an unknown symbol.
MalformedAtCursor ==
    \/ /\ Takes("string")
       /\ LET r == StringLoop(code, i + 1, At(code, i), << At(code, i) >>)
          IN  ~ (r.i < Len(code))
    \/ /\ Takes("number")
       /\ (Run.letters \/ ~ is_valid_number(Run.text)[1])
    \/ Takes("unknown")

\* C3: No error is fatal and every error is reported: the errors list has
\* one entry per Error token, appended in the same step and so in the same
\* order, and scanning goes on after an error, so that every malformed
\* lexeme met later is reported as well: the iteration that consumes it
\* appends one Error token and one errors entry.
C3_EveryErrorReported ==
    /\ [](Len(errors) = Cardinality(ErrorTokens))
    /\ [][ /\ pc = "scan" =>
                \/ AppendsError /\ AppendsToken /\ IsError(Last(token_sequence'))
                \/ /\ errors' = errors
                   /\ \/ token_sequence' = token_sequence
                      \/ AppendsToken /\ ~ IsError(Last(token_sequence'))
           /\ MalformedAtCursor => AppendsError ]_vars

\* C4: The result of tokenize depends only on its argument: whatever the
\* instance scanned or reset before, when tokenize(s) returns, the token
\* sequence, the errors list, the identifiers, numbers and strings tables
\* and the line/column counters are those of tokenize(s) on a freshly
\* constructed instance.
C4_SameAsFreshInstance ==
    pc = "done" =>
        LET fresh == tokenize(__init__, code)
        IN  /\ token_sequence = fresh.token_sequence
            /\ errors = fresh.errors
            /\ identifiers = fresh.identifiers
            /\ numbers = fresh.numbers
            /\ strings = fresh.strings
            /\ current_line = fresh.current_line
            /\ current_column = fresh.current_column

\* A scan has returned on an instance that held the results of an earlier
\* scan when it was called, and has filled a table again.
C4_Witness ==
    /\ pc = "done"
    /\ stale
    /\ token_sequence # <<>>
    /\ DOMAIN numbers # {}

\* C5: The static tables keywords, delimiters and operations are those the
\* constructor built, in every state: no reset and no tokenize changes them.
C5_StaticTablesUnchanged ==
    /\ keywords = __init__.keywords
    /\ delimiters = __init__.delimiters
    /\ operations = __init__.operations

\* An instance that was reset after a scan of a non-empty text which itself
\* followed an earlier scan.
C5_Witness ==
    /\ pc = "idle"
    /\ stale
    /\ code # <<>>
    /\ DOMAIN keywords # {}

\* The tokens of kind t.
OfKind(t) == {k \in DOMAIN token_sequence : token_sequence[k].lex_type = t}

\* The first token of the kind of the k-th token with the k-th token's value.
FirstSeen(k) ==
    MinOf({m \in OfKind(token_sequence[k].lex_type) :
              token_sequence[m].value = token_sequence[k].value})

\* The number of distinct literals of the k-th token's kind seen up to the
\* first occurrence of its literal: the id that first-seen order gives it.
FirstSeenId(k) ==
    Cardinality({token_sequence[m].value :
                    m \in {n \in OfKind(token_sequence[k].lex_type) : n <= FirstSeen(k)}})

\* The code of the k-th token is its kind letter followed by that id.
CarriesFirstSeenId(k) ==
    token_sequence[k].code = token_sequence[k].lex_type \o str(FirstSeenId(k))

C7_CursorAdvances ==
    /\ [](i <= Len(code))
    /\ [](pc = "done" => i = Len(code))
    /\ [][pc = "scan" /\ pc' = "scan" => i < i' /\ i' <= Len(code)]_vars

\* A scan of several lexemes has returned.
C7_Witness ==
    /\ pc = "done"
    /\ i = Len(code)
    /\ Len(code) >= 3
    /\ Len(token_sequence) >= 2

\* The line and the column of the character at the 0-based offset j of text.
LineOf(text, j) == 1 + Cardinality({k \in 0..(j - 1) : At(text, k) = "\n"})

ColumnOf(text, j) ==
    LET breaks == {k \in 0..(j - 1) : At(text, k) = "\n"}
    IN  IF breaks = {} THEN j + 1 ELSE j - MaxOf(breaks)

\* C8: Every token's position is that of the first character of its lexeme
\* in the original text: an iteration that emits a token gives it the line
\* and the column of the character at the cursor -- also after a string
\* literal or an error token.
C8_TokenPositions ==
    [][ (pc = "scan" /\ Len(token_sequence') > Len(token_sequence)) =>
          /\ Last(token_sequence').line = LineOf(code, i)
          /\ Last(token_sequence').column = ColumnOf(code, i) ]_vars

\* digits, all of them (possibly none).
AllDigits(s) == \A k \in DOMAIN s : isdigit(s[k])

\* One or more digits, optionally a '.' followed by zero or more digits.
IsMantissa(s) ==
    \E n \in 1..Len(s) :
        /\ AllDigits(SubSeq(s, 1, n))
        /\ \/ n = Len(s)
           \/ s[n + 1] = "." /\ AllDigits(SubSeq(s, n + 2, Len(s)))

\* e/E, an optional sign, one or more digits.
IsExponent(s) ==
    /\ Len(s) >= 2
    /\ s[1] \in {"e", "E"}
    /\ LET rest == IF s[2] \in {"+", "-"} THEN SubSeq(s, 3, Len(s))
                   ELSE SubSeq(s, 2, Len(s))
       IN  rest # <<>> /\ AllDigits(rest)

WellFormedNumber(s) ==
    \/ IsMantissa(s)
    \/ \E n \in 1..(Len(s) - 1) :
          IsMantissa(SubSeq(s, 1, n)) /\ IsExponent(SubSeq(s, n + 1, Len(s)))

\* C9: An input that consists solely of a well-formed numeric literal --
\* digits, optionally a '.' and more digits (a trailing dot is allowed),
\* optionally e/E with an optional sign and digits -- yields exactly one
\* Number token whose value is the whole input, and no errors.
C9_WellFormedNumberAccepted ==
    (pc = "done" /\ WellFormedNumber(code)) =>
        /\ Len(token_sequence) = 1
        /\ token_sequence[1].lex_type = LexemType.NUMBER
        /\ token_sequence[1].value = Join(code)
        /\ DOMAIN numbers = {Join(code)}
        /\ errors = <<>>

\* The scan of a literal with a signed exponent has returned.
C9_Witness ==
    /\ pc = "done"
    /\ WellFormedNumber(code)
    /\ \E k \in DOMAIN code : code[k] = "-"
    /\ Len(token_sequence) = 1

Markers(s) == {k \in DOMAIN s : s[k] \in {"e", "E"}}

\* The e/E at position k is properly positioned: neither the first nor the
\* last character of the run, and a digit or a sign follows it.
ProperlyPositioned(s, k) ==
    /\ k > 1
    /\ k < Len(s)
    /\ (isdigit(s[k + 1]) \/ s[k + 1] \in {"+", "-"})

\* The exponent part without its optional leading sign.
Unsigned(exponent) ==
    IF exponent # <<>> /\ Head(exponent) \in {"+", "-"} THEN Tail(exponent)
    ELSE exponent

\* The conditions under which a run is structurally invalid.
StructurallyInvalid(s) ==
    \/ s = <<>>
    \/ count(s, ".") > 1
    \/ \E k \in DOMAIN s :
          /\ isalpha(s[k])
          /\ ~ (k \in Markers(s) /\ Cardinality(Markers(s)) = 1 /\ ProperlyPositioned(s, k))
    \/ \E k \in Markers(s) :
          LET mantissa == SubSeq(s, 1, k - 1)
              exponent == SubSeq(s, k + 1, Len(s))
          IN  \/ mantissa = <<>>
              \/ exponent = <<>>
              \/ Unsigned(exponent) = <<>>
              \/ ~ AllDigits(Unsigned(exponent))

\* C11: Structural validation: is_valid_number rejects the run that the
\* iteration hands to it exactly when the run is empty, has more than one
\* '.', has a letter other than one properly positioned e/E, or has an
\* empty mantissa, an empty exponent or an exponent that is not all digits
\* after its optional sign; and every such invalid run yields one Error
\* token with code E4 whose value is the whole run.
C11_StructuralValidation ==
    [][ (Takes("number") /\ ~ Run.letters) =>
          /\ is_valid_number(Run.text)[1] <=> ~ StructurallyInvalid(Run.text)
          /\ StructurallyInvalid(Run.text) =>
                /\ AppendsToken
                /\ IsError(Last(token_sequence'))
                /\ Last(token_sequence').code = "E4"
                /\ Last(token_sequence').value = Join(Run.text) ]_vars

\* The number of consecutive backslashes that end just before offset k of
\* text, counted back no further than offset lo.
RECURSIVE BackslashesBefore(_, _, _)
BackslashesBefore(text, k, lo) ==
    IF k > lo /\ At(text, k - 1) = "\\" THEN 1 + BackslashesBefore(text, k - 1, lo)
    ELSE 0

\* The character at offset k closes the string opened at offset j: it is
\* the same quote and it is not escaped by a backslash.
Closes(text, j, k) ==
    /\ At(text, k) = At(text, j)
    /\ BackslashesBefore(text, k, j + 1) % 2 = 0

\* The string opened at offset j reaches the end of text unclosed.
Unterminated(text, j) ==
    ~ \E k \in (j + 1)..(Len(text) - 1) : Closes(text, j, k)

\* C12: Unterminated string: when the string opened at the cursor reaches
\* the end of the input before a closing quote, the iteration emits exactly
\* one Error token with code E1 whose value is the text from the opening
\* quote to the end of the input, appends one errors entry and interns
\* nothing in the strings table.
C12_UnterminatedString ==
    [][ (Takes("string") /\ Unterminated(code, i)) =>
          /\ AppendsToken
          /\ IsError(Last(token_sequence'))
          /\ Last(token_sequence').code = "E1"
          /\ Last(token_sequence').value = Join(Slice(code, i, Len(code)))
          /\ AppendsError
          /\ strings' = strings
          /\ i' = Len(code) ]_vars

\* An unterminated string that holds an escaped quote has been emitted as
\* an E1 token after another token, and the scan has returned.
C12_Witness ==
    /\ pc = "done"
    /\ Len(token_sequence) = 2
    /\ Last(token_sequence).code = "E1"
    /\ Len(Last(token_sequence).value) = 3
    /\ code[Len(code)] = "\""
    /\ DOMAIN strings = {}

\* A character of a word: alphanumeric, '.' or '_'.
IsWordChar(c) == isalnum(c) \/ c \in {".", "_"}

\* A word starts at offset j of text: a letter, '_', or a '.' that is not the
\* first of two dots (the two-dot pair is dispatched before the words).
WordStartsAt(text, j) ==
    /\ j < Len(text)
    /\ \/ isalpha(At(text, j))
       \/ At(text, j) = "_"
       \/ At(text, j) = "." /\ ~ (j + 1 < Len(text) /\ At(text, j + 1) = ".")

\* The offset just past the maximal run of word characters from offset j.
WordEnd(text, j) ==
    MinOf({k \in j..Len(text) : k = Len(text) \/ ~ IsWordChar(At(text, k))})

KeywordRank ==
    [ w \in {Join(keywords_list[k]) : k \in DOMAIN keywords_list} |->
        LET k == CHOOSE n \in DOMAIN keywords_list : Join(keywords_list[n]) = w
        IN  1 + Cardinality({m \in DOMAIN keywords_list :
                                StrLess(keywords_list[m], keywords_list[k])}) ]

\* The keywords that start with an upper-case letter.
UpperCaseKeywords ==
    { Join(keywords_list[k]) : k \in {n \in DOMAIN keywords_list :
          \E u \in DOMAIN UpperCase : UpperCase[u] = Head(keywords_list[n])} }

\* The ranks are exactly 1..55 without duplicates, and the upper-case
\* keywords FALSE, Inf, NA, NULL, NaN, TRUE come before all the others.
RanksAreDense ==
    /\ Cardinality(DOMAIN KeywordRank) = 55
    /\ {KeywordRank[w] : w \in DOMAIN KeywordRank} = 1..55
    /\ UpperCaseKeywords = {"FALSE", "Inf", "NA", "NULL", "NaN", "TRUE"}
    /\ \A u \in UpperCaseKeywords : \A w \in DOMAIN KeywordRank \ UpperCaseKeywords :
          KeywordRank[u] < KeywordRank[w]

\* C14: Keyword ids are the 1-based ranks of the keywords in case-sensitive
\* code-point order: ids are exactly 1..55 without duplicates, every
\* keyword that starts with an upper-case letter has a smaller id than
\* every lower-case keyword, and the ids are these in every state of every
\* scan.
C14_KeywordIds ==
    /\ RanksAreDense
    /\ keywords = KeywordRank

\* A second scan on the same instance has emitted the keyword c with its
\* rank as id.
C14_Witness ==
    /\ pc = "done"
    /\ stale
    /\ \E k \in DOMAIN token_sequence :
          /\ token_sequence[k].lex_type = LexemType.KEYWORD
          /\ token_sequence[k].code = "W" \o str(KeywordRank[token_sequence[k].value])
    /\ keywords["TRUE"] < keywords["c"]

\* The character at offset j of text belongs to no category: it is not
\* whitespace, not '#', not a quote, not a letter, digit, '_' or '.', no
\* operation of one to four characters starts there and it is no delimiter.
UnknownAt(text, j) ==
    /\ j < Len(text)
    /\ LET c == At(text, j)
       IN  /\ ~ isspace(c)
           /\ c \notin {"#", "\"", "'", "_", "."}
           /\ ~ isalnum(c)
           /\ \A n \in 1..4 :
                 j + n <= Len(text) => Join(Slice(text, j, j + n)) \notin DOMAIN operations
           /\ c \notin DOMAIN delimiters

\* C15: Unknown symbol: a character at the cursor that belongs to no
\* category yields exactly one Error token with code E5 whose value is that
\* one character, with one errors entry, and the scan goes on at the next
\* character.
C15_UnknownSymbol ==
    [][ (pc = "scan" /\ UnknownAt(code, i)) =>
          /\ AppendsToken
          /\ IsError(Last(token_sequence'))
          /\ Last(token_sequence').code = "E5"
          /\ Last(token_sequence').value = At(code, i)
          /\ AppendsError
          /\ i' = i + 1
          /\ pc' = "scan" ]_vars

\* An unknown symbol has been reported and the lexeme after it scanned.
C15_Witness ==
    /\ pc = "done"
    /\ Len(token_sequence) >= 2
    /\ token_sequence[1].code = "E5"
    /\ token_sequence[1].value = "?"
    /\ ~ IsError(token_sequence[2])

\* The k-th Error token of the sequence.
NthError(k) ==
    token_sequence[CHOOSE m \in ErrorTokens :
                      Cardinality({n \in ErrorTokens : n <= m}) = k]

\* "Line L, column C: " with the position of the token.
Position(tok) ==
    "Line " \o str(tok.line) \o ", column " \o str(tok.column) \o ": "

\* " - '<lexeme>'" with the value of the token.
QuotedLexeme(tok) == " - '" \o tok.value \o "'"

\* C16 as stated: every errors entry is the position of its Error token, the
\* token's message, then " - '<lexeme>'" -- for all four error kinds.
C16_ErrorStringForm ==
    /\ Len(errors) = Cardinality(ErrorTokens)
    /\ \A k \in DOMAIN errors :
          errors[k] = Position(NthError(k)) \o NthError(k).error_msg
                          \o QuotedLexeme(NthError(k))

\* C16 amended: every errors entry is the position of its Error token and
\* the token's message; " - '<lexeme>'" follows only for an invalid number
\* structure (E4).  The messages of letters-in-number (E3) and of an unknown
\* symbol (E5) quote the lexeme themselves; the entry of an unterminated
\* string (E1) names no lexeme.
C16_ErrorStringPerKind ==
    /\ Len(errors) = Cardinality(ErrorTokens)
    /\ \A k \in DOMAIN errors :
          LET tok == NthError(k)
          IN  /\ errors[k] = Position(tok) \o tok.error_msg
                                \o (IF tok.code = "E4" THEN QuotedLexeme(tok) ELSE "")
              /\ tok.code = "E1" => tok.error_msg = "Unterminated string"
              /\ tok.code = "E3" =>
                    tok.error_msg = "Invalid number - '" \o tok.value \o "' contains letters"
              /\ tok.code = "E5" =>
                    tok.error_msg = "Unknown symbol '" \o tok.value \o "'"

\* A scan has reported an invalid number structure and then, further along
\* the line, an unterminated string.
C16_Witness ==
    /\ pc = "done"
    /\ Len(errors) = 2
    /\ NthError(1).code = "E4"
    /\ NthError(2).code = "E1"
    /\ NthError(2).column > 1

\* The table in which the tokens of a kind have their ids; the object has
\* no table for comments.
TableOf(kind) ==
    IF kind = LexemType.KEYWORD THEN keywords
    ELSE IF kind = LexemType.DELIMITER THEN delimiters
    ELSE IF kind = LexemType.OPERATION THEN operations
    ELSE IF kind = LexemType.IDENTIFIER THEN identifiers
    ELSE IF kind = LexemType.NUMBER THEN numbers
    ELSE IF kind = LexemType.STRING THEN strings
    ELSE EmptyDict

\* The code of the token is its kind letter followed by the id that its
\* value has in the table of its kind.
CodeFromTable(tok) ==
    /\ tok.value \in DOMAIN TableOf(tok.lex_type)
    /\ tok.code = tok.lex_type \o str(TableOf(tok.lex_type)[tok.value])

\* C17: Every emitted non-error token's code is derivable from its kind and
\* its id: the kind letter followed by the id that the token's value has in
\* the table of that kind -- for all kinds, Comment tokens and the two-dot
\* token included.
C17_CodeDerivable ==
    \A k \in DOMAIN token_sequence :
        ~ IsError(token_sequence[k]) => CodeFromTable(token_sequence[k])


\* The four error tags.
ErrorCodes == {"E1", "E3", "E4", "E5"}

\* The codes of the tokens that are no errors: a kind letter other than E
\* followed by an id, and the code of the comments.
NonErrorCodes ==
    { kind \o str(n) : kind \in {"W", "R", "O", "I", "N", "S"}, n \in 1..55 } \cup {"C#"}

DotThenDigit(text, j) ==
    /\ j + 1 < Len(text)
    /\ At(text, j) = "."
    /\ isdigit(At(text, j + 1))

\* C19: Dispatch of a leading dot: at a '.' immediately followed by a digit
\* the numeric-literal scanner is selected: the iteration consumes the
\* numeric run from the dot on and emits for it a Number token if the run
\* is valid and an Error token otherwise, never an Identifier token; an
\* identifier starts at a '.' only when no digit follows the dot.
C19_LeadingDotIsNumber ==
    [][ (pc = "scan" /\ DotThenDigit(code, i)) =>
          /\ AppendsToken
          /\ Last(token_sequence').lex_type # LexemType.IDENTIFIER
          /\ Last(token_sequence').value = Join(Run.text)
          /\ is_valid_number(Run.text)[1] =>
                Last(token_sequence').lex_type = LexemType.NUMBER ]_vars

\* text is one or more digits, two dots, and one or more digits.
DigitsDotsDigits(text) ==
    \E n \in 1..(Len(text) - 3) :
        /\ AllDigits(SubSeq(text, 1, n))
        /\ text[n + 1] = "."
        /\ text[n + 2] = "."
        /\ AllDigits(SubSeq(text, n + 3, Len(text)))

\* C20: Two adjacent dots preceded by a digit are an error: the scan of an
\* input made of digits, two dots and digits (123..45) returns with an
\* Error token of code E4 in the token sequence and a non-empty errors
\* list, not with a number followed by a range operator.
C20_TwoDotsAfterDigit ==
    (pc = "done" /\ DigitsDotsDigits(code)) =>
        /\ errors # <<>>
        /\ \E k \in ErrorTokens : token_sequence[k].code = "E4"
        /\ \A k \in DOMAIN token_sequence : token_sequence[k].value # ".."

DottedRunAt(text, j) ==
    /\ j + 1 < Len(text)
    /\ At(text, j) = "."
    /\ At(text, j + 1) = "."
    /\ j > 0 => ~ isdigit(At(text, j - 1)) /\ At(text, j - 1) # "."

\* The offset just past the run of dots that starts at offset j.
DotsEnd(text, j) ==
    MinOf({k \in j..Len(text) : k = Len(text) \/ At(text, k) # "."})

\* C22: A dotted run not preceded by a digit is one identifier-like token:
\* at a run of two dots, or of three or more dots such as ..., the
\* iteration emits a single Identifier token whose value is the whole run
\* of dots -- not several tokens and not a Delimiter.
C22_DottedRunIsIdentifier ==
    [][ (pc = "scan" /\ DottedRunAt(code, i)) =>
          /\ AppendsToken
          /\ Last(token_sequence').lex_type = LexemType.IDENTIFIER
          /\ OccursAt(code, i, Last(token_sequence').value)
          /\ i' >= DotsEnd(code, i) ]_vars

\* The offset of the first unescaped occurrence of the opening quote after
\* the quote at offset j.
ClosingQuote(text, j) ==
    MinOf({k \in (j + 1)..(Len(text) - 1) : Closes(text, j, k)})

\* C23: Closed strings are copied verbatim: the string opened at the cursor
\* ends at the first occurrence of its quote character that no backslash
\* escapes; the iteration emits one String token whose value is exactly the
\* source span from the opening to the closing quote, backslashes and
\* escaped characters included, interned in the strings table, and reports
\* no error.
C23_ClosedString ==
    [][ (/\ pc = "scan"
         /\ i < Len(code)
         /\ At(code, i) \in {"\"", "'"}
         /\ ~ Unterminated(code, i)) =>
          LET tok == Last(token_sequence')
          IN  /\ AppendsToken
              /\ tok.lex_type = LexemType.STRING
              /\ tok.value = Join(Slice(code, i, ClosingQuote(code, i) + 1))
              /\ i' = ClosingQuote(code, i) + 1
              /\ tok.value \in DOMAIN strings'
              /\ tok.code = "S" \o str(strings'[tok.value])
              /\ errors' = errors ]_vars

\* A string that holds an escaped quote has been emitted as a String token.
C23_Witness ==
    /\ pc = "done"
    /\ Len(code) = 4
    /\ code[2] = "\\"
    /\ code[3] = code[1]
    /\ Len(token_sequence) = 1
    /\ token_sequence[1].lex_type = LexemType.STRING
    /\ token_sequence[1].value = Join(code)
    /\ DOMAIN strings = {Join(code)}

\* The character at offset j of text is left to the operator/delimiter
\* matching: no whitespace, '#', quote, '.', '_', letter or digit.
SymbolAt(text, j) ==
    /\ j < Len(text)
    /\ ~ isspace(At(text, j))
    /\ At(text, j) \notin {"#", "\"", "'", ".", "_"}
    /\ ~ isalnum(At(text, j))

\* The lengths, among 1..4, of the prefixes of text from offset j that are
\* keys of the operations table.
OperatorLengths(text, j) ==
    { n \in 1..4 : j + n <= Len(text) /\ Join(Slice(text, j, j + n)) \in DOMAIN operations }

\* C24: Operator longest match: at a position left to the operator and
\* delimiter matching, the iteration emits as one Operation token the
\* longest prefix of the remaining input, of at most four characters, that
\* is a key of the operations table, with that entry's id; only when no
\* prefix of any length is an operation is the character emitted as a
\* Delimiter.
C24_OperatorLongestMatch ==
    [][ (pc = "scan" /\ SymbolAt(code, i)) =>
          LET tok == Last(token_sequence')
              lens == OperatorLengths(code, i)
              longest == CHOOSE n \in lens : \A m \in lens : m <= n
          IN  /\ AppendsToken
              /\ IF lens # {}
                 THEN /\ tok.lex_type = LexemType.OPERATION
                      /\ tok.value = Join(Slice(code, i, i + longest))
                      /\ tok.code = "O" \o str(operations[tok.value])
                      /\ i' = i + longest
                 ELSE /\ tok.lex_type # LexemType.OPERATION
                      /\ i' = i + 1
                      /\ At(code, i) \in DOMAIN delimiters =>
                            /\ tok.lex_type = LexemType.DELIMITER
                            /\ tok.value = At(code, i)
                            /\ tok.code = "R" \o str(delimiters[At(code, i)]) ]_vars

\* The four-character operation %in% has been emitted as one token.
C24_Witness ==
    /\ pc = "done"
    /\ Len(token_sequence) = 1
    /\ token_sequence[1].lex_type = LexemType.OPERATION
    /\ token_sequence[1].value = "%in%"
    /\ token_sequence[1].code = "O10"

\* C25: Exponent sign rule: a numeric run takes in a '+' or '-' only
\* directly after e/E; a run without a letter error stops before any other
\* sign, and the sign at which an iteration starts is emitted as an
\* Operation token of its own (1+1 is Number, Operation, Number and 1E+1
\* is one Number).
C25_ExponentSign ==
    /\ [][ (pc = "scan" /\ i < Len(code) /\ isdigit(At(code, i))) =>
             /\ \A k \in (i + 1)..(i' - 1) :
                   At(code, k) \in {"+", "-"} => At(code, k - 1) \in {"e", "E"}
             /\ (/\ BadLetters(Slice(code, i, i')) = {}
                 /\ i' < Len(code)
                 /\ At(code, i') \in {"+", "-"}) => At(code, i' - 1) \notin {"e", "E"} ]_vars
    /\ [][ (pc = "scan" /\ i < Len(code) /\ At(code, i) \in {"+", "-"}) =>
             /\ AppendsToken
             /\ Last(token_sequence').lex_type = LexemType.OPERATION
             /\ OccursAt(code, i, Last(token_sequence').value) ]_vars
    /\ [](pc = "done" /\ code = << "1", "E", "+", "1" >> =>
             /\ Len(token_sequence) = 1
             /\ token_sequence[1].lex_type = LexemType.NUMBER
             /\ token_sequence[1].value = "1E+1")

\* The scan of digit, sign, digit has returned Number, Operation, Number.
C25_Witness ==
    /\ pc = "done"
    /\ Len(token_sequence) = 3
    /\ token_sequence[1].lex_type = LexemType.NUMBER
    /\ token_sequence[2].lex_type = LexemType.OPERATION
    /\ token_sequence[2].value = "+"
    /\ token_sequence[3].lex_type = LexemType.NUMBER

\* The offset of the first newline at or after offset j of text, or the
\* length of text when there is none.
LineEnd(text, j) ==
    MinOf({k \in j..Len(text) : k = Len(text) \/ At(text, k) = "\n"})

\* C26: Line comment: at a '#' the iteration emits exactly one Comment token
\* whose value is the text from the '#' up to, and without, the next
\* newline or the end of the input, and leaves the cursor there; the
\* newline is then skipped as whitespace: no token, the line incremented
\* and the column reset to 1.
C26_LineComment ==
    /\ [][ (pc = "scan" /\ i < Len(code) /\ At(code, i) = "#") =>
             /\ AppendsToken
             /\ Last(token_sequence').lex_type = LexemType.COMMENT
             /\ Last(token_sequence').value = Join(Slice(code, i, LineEnd(code, i)))
             /\ i' = LineEnd(code, i)
             /\ current_line' = current_line
             /\ errors' = errors ]_vars
    /\ [][ (pc = "scan" /\ i < Len(code) /\ At(code, i) = "\n") =>
             /\ token_sequence' = token_sequence
             /\ i' = i + 1
             /\ current_line' = current_line + 1
             /\ current_column' = 1 ]_vars

\* A comment of two characters, the newline after it and a word on the
\* second line have been scanned.
C26_Witness ==
    /\ pc = "done"
    /\ Len(token_sequence) = 2
    /\ token_sequence[1].lex_type = LexemType.COMMENT
    /\ Len(token_sequence[1].value) = 2
    /\ token_sequence[2].line = 2
    /\ token_sequence[2].column = 1

ValuesOf(kind) == {token_sequence[k].value : k \in OfKind(kind)}

\* The ids of a table are exactly 1..n, n the number of its keys.
DenseIds(table) == {table[w] : w \in DOMAIN table} = 1..Cardinality(DOMAIN table)

\* C28: The keys of the identifiers, numbers and strings tables are exactly
\* the values of the Identifier, Number and String tokens of the token
\* sequence, the ids of each table are exactly 1..n for its n literals, and
\* neither the lexeme of an Error token nor a keyword is a key of any of
\* the tables.
C28_TablesAreTokenValues ==
    /\ DOMAIN identifiers = ValuesOf(LexemType.IDENTIFIER)
    /\ DOMAIN numbers = ValuesOf(LexemType.NUMBER)
    /\ DOMAIN strings = ValuesOf(LexemType.STRING)
    /\ DenseIds(identifiers)
    /\ DenseIds(numbers)
    /\ DenseIds(strings)
    /\ (ValuesOf(LexemType.ERROR) \cup DOMAIN keywords)
          \cap (DOMAIN identifiers \cup DOMAIN numbers \cup DOMAIN strings) = {}

\* A scan has returned a number, an error and an identifier.
C28_Witness ==
    /\ pc = "done"
    /\ Len(token_sequence) = 3
    /\ Cardinality(DOMAIN numbers) = 1
    /\ Cardinality(DOMAIN identifiers) = 1
    /\ Cardinality(ErrorTokens) = 1

\* C29: An unterminated-string Error token (E1) takes in all the remaining
\* input: its value is the input from its opening quote to the end, the
\* cursor is at the end of the input once it is emitted, and so in every
\* state it is the last token of the sequence and the only E1 token.
C29_UnterminatedIsLast ==
    \A k \in DOMAIN token_sequence :
        token_sequence[k].code = "E1" =>
            /\ k = Len(token_sequence)
            /\ i = Len(code)
            /\ OccursAt(code, Len(code) - Len(token_sequence[k].value),
                        token_sequence[k].value)
            /\ Cardinality({m \in DOMAIN token_sequence :
                               token_sequence[m].code = "E1"}) = 1

\* An unterminated string has taken in a newline, a comment mark and a
\* quote of the other kind, and the scan has returned.
C29_Witness ==
    /\ pc = "done"
    /\ Len(code) = 4
    /\ code[1] \in {"\"", "'"}
    /\ code[2] = "\n"
    /\ code[3] = "#"
    /\ code[4] \in {"\"", "'"}
    /\ Len(token_sequence) = 1
    /\ token_sequence[1].code = "E1"
    /\ token_sequence[1].value = Join(code)

\* C30: while a caller holds the list that tokenize returned, no later step
\* of the same instance (a reset, a call of tokenize, the appends of the new
\* scan) changes the tokens seen through that reference.
C30_ResultNotModified ==
    [][ (result # 0 /\ result' = result) => HeldTokens' = HeldTokens ]_vars

\* An earlier result with tokens is held, and a later call of tokenize has
\* scanned a different text to its end and is about to return.
C30_Witness ==
    /\ pc = "scan" /\ i = Len(code) /\ result # 0 /\ result # ref
    /\ heap[result] # <<>> /\ token_sequence # <<>>
    /\ heap[result] # token_sequence
====
